---- MODULE Spec2Model ----
(***************************************************************************)
(* A model of src/main.py: the Lexer, the recursive-descent Parser and the *)
(* tree-walking Interpreter of the BYC scripting language, run in the      *)
(* order of the module's main sequence (lines 225-230).                    *)
(*                                                                         *)
(* Text is a sequence of one-character strings, so that the lexer's        *)
(* regular expressions, int() and str() are computed character by          *)
(* character.  The recursion of the parser and of the interpreter is made  *)
(* explicit: pstack is the parser's call stack, todo the interpreter's     *)
(* continuation.  phase is the place in the main sequence, err the         *)
(* exception that ended it.  orig (the tokens the lexer returned) and      *)
(* consumed (the tokens next_token has replaced) are history variables.    *)
(***************************************************************************)
EXTENDS Integers, Sequences, FiniteSets

VARIABLES source, phase, err, pos, tokens, current_token, pstack, ret, ast,
          variables, todo, output, orig, consumed

vars == <<source, phase, err, pos, tokens, current_token, pstack, ret, ast,
          variables, todo, output, orig, consumed>>

(***************************************************************************)
(* Characters.                                                             *)
(***************************************************************************)
Digits == {"0", "1", "2", "3", "4", "5", "6", "7", "8", "9"}

Letters == {"a", "b", "c", "d", "e", "f", "g", "h", "i", "j", "k", "l", "m",
            "n", "o", "p", "q", "r", "s", "t", "u", "v", "w", "x", "y", "z",
            "A", "B", "C", "D", "E", "F", "G", "H", "I", "J", "K", "L", "M",
            "N", "O", "P", "Q", "R", "S", "T", "U", "V", "W", "X", "Y", "Z"}

\* [A-Za-z_] and \w (ASCII range)
IdentStart == Letters \cup {"_"}
WordChars == Letters \cup Digits \cup {"_"}

\* [+\-*/=<>!]
OpChars == {"+", "-", "*", "/", "=", "<", ">", "!"}

\* [ \t\n]
SkipChars == {" ", "\t", "\n"}

Quote == "\""

\* The printable ASCII characters in code-point order: codes 32 to 95, and
\* codes 97 to 126 (code 96, the grave accent, cannot be written in a string
\* of this notation and is left out of the alphabet).
AsciiLow == <<" ", "!", "\"", "#", "$", "%", "&", "'", "(", ")", "*", "+", ",",
              "-", ".", "/", "0", "1", "2", "3", "4", "5", "6", "7", "8", "9",
              ":", ";", "<", "=", ">", "?", "@", "A", "B", "C", "D", "E", "F",
              "G", "H", "I", "J", "K", "L", "M", "N", "O", "P", "Q", "R", "S",
              "T", "U", "V", "W", "X", "Y", "Z", "[", "\\", "]", "^", "_">>

AsciiHigh == <<"a", "b", "c", "d", "e", "f", "g", "h", "i", "j", "k", "l", "m",
               "n", "o", "p", "q", "r", "s", "t", "u", "v", "w", "x", "y", "z",
               "{", "|", "}", "~">>

\* The code point of a character, by which Python orders strings.
Ord(c) ==
    IF c = "\t" THEN 9
    ELSE IF c = "\n" THEN 10
    ELSE IF \E k \in 1..Len(AsciiLow) : AsciiLow[k] = c
         THEN 31 + (CHOOSE k \in 1..Len(AsciiLow) : AsciiLow[k] = c)
    ELSE 96 + (CHOOSE k \in 1..Len(AsciiHigh) : AsciiHigh[k] = c)

(***************************************************************************)
(* Python values.  One record shape for all of them: t is the type, n/d    *)
(* the number (d = 1 unless a float; a float is kept as the reduced        *)
(* fraction n/d, True and False as 1 and 0), s the characters of a str, q  *)
(* the elements of a tuple (every tuple the program can build holds only   *)
(* strings).                                                               *)
(***************************************************************************)
IntV(k) == [t |-> "int", n |-> k, d |-> 1, s |-> <<>>, q |-> <<>>]
StrV(cs) == [t |-> "str", n |-> 0, d |-> 1, s |-> cs, q |-> <<>>]
BoolV(b) == [t |-> "bool", n |-> IF b THEN 1 ELSE 0, d |-> 1, s |-> <<>>, q |-> <<>>]
TupV(es) == [t |-> "tuple", n |-> 0, d |-> 1, s |-> <<>>, q |-> es]
NoneV == [t |-> "None", n |-> 0, d |-> 1, s |-> <<>>, q |-> <<>>]

\* An exception in place of a value.
Raise(exc, msg) == [t |-> "raise", n |-> 0, d |-> 1, s |-> <<>>, q |-> <<>>,
                    exc |-> exc, msg |-> msg]
IsRaise(v) == v.t = "raise"

NoErr == [stage |-> "", exc |-> "", msg |-> "", kind |-> ""]

(***************************************************************************)
(* Lexer                                                                   *)
(***************************************************************************)
\* self.keywords
keywords == {<<"i", "n", "t">>, <<"s", "t", "r", "i", "n", "g">>, <<"i", "f">>,
             <<"e", "l", "s", "e">>, <<"f", "o", "r">>,
             <<"p", "r", "i", "n", "t">>, <<"r", "a", "n", "g", "e">>}

\* value.upper() of a keyword
Upper(value) ==
    CASE value = <<"i", "n", "t">> -> "INT"
      [] value = <<"s", "t", "r", "i", "n", "g">> -> "STRING"
      [] value = <<"i", "f">> -> "IF"
      [] value = <<"e", "l", "s", "e">> -> "ELSE"
      [] value = <<"f", "o", "r">> -> "FOR"
      [] value = <<"p", "r", "i", "n", "t">> -> "PRINT"
      [] value = <<"r", "a", "n", "g", "e">> -> "RANGE"

\* The first position at or after p whose character is not in S (a greedy
\* run of a character class).
RECURSIVE RunEnd(_, _, _)
RunEnd(src, p, S) ==
    IF p <= Len(src) /\ src[p] \in S THEN RunEnd(src, p + 1, S) ELSE p

\* The position of the first quote at or after p, 0 if there is none.
RECURSIVE NextQuote(_, _)
NextQuote(src, p) ==
    IF p > Len(src) THEN 0
    ELSE IF src[p] = Quote THEN p
    ELSE NextQuote(src, p + 1)

\* The alternative of tok_regex that matches at position p, tried in the
\* order of token_specification, and the position after the match.
Match(src, p) ==
    LET c == src[p] IN
    IF c \in Digits THEN [kind |-> "NUMBER", end |-> RunEnd(src, p, Digits)]
    ELSE IF c \in IdentStart THEN [kind |-> "IDENT", end |-> RunEnd(src, p + 1, WordChars)]
    ELSE IF c = Quote /\ NextQuote(src, p + 1) # 0
         THEN [kind |-> "STRING", end |-> NextQuote(src, p + 1) + 1]
    ELSE IF c \in OpChars THEN [kind |-> "OP", end |-> RunEnd(src, p, OpChars)]
    ELSE IF c = ":" THEN [kind |-> "COLON", end |-> p + 1]
    ELSE IF c = "(" THEN [kind |-> "LPAREN", end |-> p + 1]
    ELSE IF c = ")" THEN [kind |-> "RPAREN", end |-> p + 1]
    ELSE IF c = "{" THEN [kind |-> "LBRACE", end |-> p + 1]
    ELSE IF c = "}" THEN [kind |-> "RBRACE", end |-> p + 1]
    ELSE IF c \in SkipChars THEN [kind |-> "SKIP", end |-> p + 1]
    ELSE [kind |-> "MISMATCH", end |-> p + 1]

DigitVal(c) == Ord(c) - 48

\* int(value) of a run of digits
RECURSIVE int(_)
int(cs) ==
    IF cs = <<>> THEN 0
    ELSE 10 * int(SubSeq(cs, 1, Len(cs) - 1)) + DigitVal(cs[Len(cs)])

Token(kind, value) == [kind |-> kind, value |-> value]

\* The token appended for a match of kind `kind` on the text `text`.
MakeToken(kind, text) ==
    IF kind = "NUMBER" THEN Token(kind, IntV(int(text)))
    ELSE IF kind = "STRING" THEN Token(kind, StrV(SubSeq(text, 2, Len(text) - 1)))
    ELSE IF kind = "IDENT" /\ text \in keywords THEN Token(Upper(text), StrV(text))
    ELSE Token(kind, StrV(text))

(***************************************************************************)
(* Parser                                                                  *)
(***************************************************************************)
\* current_token = None
NoneTok == Token("None", NoneV)

\* next_token taking the token at the wrong end of the list (pop() for
\* pop(0)).
next_token_last(toks) ==
    IF toks # <<>> THEN [current_token |-> toks[Len(toks)],
                         tokens |-> SubSeq(toks, 1, Len(toks) - 1)]
    ELSE [current_token |-> NoneTok, tokens |-> toks]

\* Parser.next_token: the token list after the call and the new current
\* token.
next_token(toks) ==
    IF toks # <<>> THEN [current_token |-> Head(toks), tokens |-> Tail(toks)]
    ELSE [current_token |-> NoneTok, tokens |-> toks]

\* self.current_token and self.current_token[1] == text
Is(tok, text) == tok # NoneTok /\ tok.value = StrV(text)

\* AST nodes, tuples as the parser builds them.  A missing initializer or
\* else block is None; a present else block is tagged, so that an empty list
\* is told from None.
None == <<"None">>
IsNone(node) == node[1] = "None"
BlockNode(stmts) == <<"Block", stmts>>
DeclareNode(type_, name, value) == <<"DECLARE", type_, name, value>>
IfNode(condition, if_block, else_block) == <<"IF", condition, if_block, else_block>>
ForNode(ident, range_expr, block) == <<"FOR", ident, range_expr, block>>
PrintNode(expr) == <<"PRINT", expr>>
AtomNode(token_type, value) == <<token_type, value>>

\* An operation node grouped to the left: (left op a) op2 b for a right
\* operand a op2 b.
RECURSIVE OperationNodeLeft(_, _, _)
OperationNodeLeft(op, left, right) ==
    IF right[1] = "OPERATION"
    THEN <<"OPERATION", right[2], OperationNodeLeft(op, left, right[3]), right[4]>>
    ELSE <<"OPERATION", op, left, right>>

OperationNode(op, left, right) == <<"OPERATION", op, left, right>>

\* The frames of the parser's call stack: the function, the place in it, and
\* its locals.
FProgram == [fn |-> "parse_program", pc |-> "loop", statements |-> <<>>]
FStatement == [fn |-> "parse_statement", pc |-> "start"]
FDeclaration == [fn |-> "parse_declaration", pc |-> "type",
                 type_token |-> NoneTok, ident_token |-> NoneTok]
FIf == [fn |-> "parse_if", pc |-> "start", condition |-> None, if_block |-> <<>>]
FFor == [fn |-> "parse_for", pc |-> "start", ident_token |-> NoneTok,
         range_expr |-> None]
FPrint == [fn |-> "parse_print", pc |-> "start"]
FExpression == [fn |-> "parse_expression", pc |-> "start", value |-> NoneV,
                token_type |-> "", op |-> NoneV]
FBlock == [fn |-> "parse_block", pc |-> "loop", statements |-> <<>>]

Top == Head(pstack)

\* One step of the parser: the call stack and the returned value after it,
\* with a call of next_token when adv is TRUE.
PStep(stack, r, adv) ==
    /\ pstack' = stack
    /\ ret' = r
    /\ IF adv
       THEN /\ current_token' = next_token(tokens).current_token
            /\ tokens' = next_token(tokens).tokens
            /\ consumed' = IF current_token # NoneTok
                           THEN Append(consumed, current_token)
                           ELSE consumed
       ELSE UNCHANGED <<current_token, tokens, consumed>>
    /\ UNCHANGED <<source, phase, err, pos, ast, variables, todo, output, orig>>

Goto(frame) == PStep(<<frame>> \o Tail(pstack), ret, FALSE)
GotoNext(frame) == PStep(<<frame>> \o Tail(pstack), ret, TRUE)
Call(callee, frame) == PStep(<<callee, frame>> \o Tail(pstack), ret, FALSE)
NextCall(callee, frame) == PStep(<<callee, frame>> \o Tail(pstack), ret, TRUE)
Return(node) == PStep(Tail(pstack), node, FALSE)
NextReturn(node) == PStep(Tail(pstack), node, TRUE)

\* An exception raised in the parser: nothing catches it.
PRaise(exc, msg, kind) ==
    /\ phase' = "error"
    /\ err' = [stage |-> "parser", exc |-> exc, msg |-> msg, kind |-> kind]
    /\ UNCHANGED <<source, pos, tokens, current_token, pstack, ret, ast,
                   variables, todo, output, orig, consumed>>

NotSubscriptable == "'NoneType' object is not subscriptable"

Parsing(fn) == phase = "parse" /\ pstack # <<>> /\ Top.fn = fn

\* Parser(tokens): __init__ calls next_token; parser.parse() enters
\* parse_program.
ParserInit ==
    /\ phase = "lexed"
    /\ phase' = "parse"
    /\ current_token' = next_token(tokens).current_token
    /\ tokens' = next_token(tokens).tokens
    /\ pstack' = <<FProgram>>
    /\ UNCHANGED <<source, err, pos, ret, ast, variables, todo, output, orig,
                   consumed>>

ParseProgram ==
    /\ Parsing("parse_program")
    /\ \/ /\ Top.pc = "loop"
          /\ current_token # NoneTok
          /\ Call(FStatement, [Top EXCEPT !.pc = "append"])
       \/ /\ Top.pc = "append"
          /\ Goto([Top EXCEPT !.statements = Append(@, ret), !.pc = "loop"])
       \/ /\ Top.pc = "loop"
          /\ current_token = NoneTok
          /\ phase' = "parsed"
          /\ ast' = Top.statements
          /\ pstack' = Tail(pstack)
          /\ UNCHANGED <<source, err, pos, tokens, current_token, ret,
                         variables, todo, output, orig, consumed>>

ParseStatement ==
    /\ Parsing("parse_statement")
    /\ \/ /\ Top.pc = "start"
          /\ LET kind == current_token.kind
                 me == [Top EXCEPT !.pc = "ret"] IN
             IF kind = "INT" \/ kind = "STRING" THEN Call(FDeclaration, me)
             ELSE IF kind = "IF" THEN Call(FIf, me)
             ELSE IF kind = "FOR" THEN Call(FFor, me)
             ELSE IF kind = "PRINT" THEN Call(FPrint, me)
             ELSE PRaise("RuntimeError", "Unexpected token", kind)
       \/ /\ Top.pc = "ret"
          /\ Return(ret)

ParseDeclaration ==
    /\ Parsing("parse_declaration")
    /\ \/ /\ Top.pc = "type"
          /\ GotoNext([Top EXCEPT !.type_token = current_token, !.pc = "ident"])
       \/ /\ Top.pc = "ident"
          /\ GotoNext([Top EXCEPT !.ident_token = current_token, !.pc = "init"])
       \/ /\ Top.pc = "init"
          /\ IF Is(current_token, <<"=">>)
             THEN NextCall(FExpression, [Top EXCEPT !.pc = "value"])
             ELSE IF Top.ident_token = NoneTok
             THEN PRaise("TypeError", NotSubscriptable, "None")
             ELSE Return(DeclareNode(Top.type_token.value, Top.ident_token.value, None))
       \/ /\ Top.pc = "value"
          /\ IF Top.ident_token = NoneTok
             THEN PRaise("TypeError", NotSubscriptable, "None")
             ELSE Return(DeclareNode(Top.type_token.value, Top.ident_token.value, ret))

ParseIf ==
    /\ Parsing("parse_if")
    /\ \/ /\ Top.pc = "start"
          /\ NextCall(FExpression, [Top EXCEPT !.pc = "colon"])
       \/ /\ Top.pc = "colon"
          /\ LET me == [Top EXCEPT !.condition = ret, !.pc = "else"] IN
             IF Is(current_token, <<":">>) THEN NextCall(FBlock, me)
             ELSE Call(FBlock, me)
       \/ /\ Top.pc = "else"
          /\ IF current_token # NoneTok /\ current_token.kind = "ELSE"
             THEN GotoNext([Top EXCEPT !.if_block = ret, !.pc = "elsecolon"])
             ELSE Return(IfNode(Top.condition, ret, None))
       \/ /\ Top.pc = "elsecolon"
          /\ LET me == [Top EXCEPT !.pc = "elseret"] IN
             IF Is(current_token, <<":">>) THEN NextCall(FBlock, me)
             ELSE Call(FBlock, me)
       \/ /\ Top.pc = "elseret"
          /\ Return(IfNode(Top.condition, Top.if_block, BlockNode(ret)))

ParseFor ==
    /\ Parsing("parse_for")
    /\ \/ /\ Top.pc = "start"
          /\ GotoNext([Top EXCEPT !.pc = "ident"])
       \/ /\ Top.pc = "ident"
          /\ GotoNext([Top EXCEPT !.ident_token = current_token, !.pc = "in"])
       \/ /\ Top.pc = "in"
          /\ IF Is(current_token, <<"i", "n">>)
             THEN NextCall(FExpression, [Top EXCEPT !.pc = "colon"])
             ELSE PRaise("RuntimeError", "Expected \"in\" in for loop", "")
       \/ /\ Top.pc = "colon"
          /\ LET me == [Top EXCEPT !.range_expr = ret, !.pc = "ret"] IN
             IF Is(current_token, <<":">>) THEN NextCall(FBlock, me)
             ELSE Call(FBlock, me)
       \/ /\ Top.pc = "ret"
          /\ IF Top.ident_token = NoneTok
             THEN PRaise("TypeError", NotSubscriptable, "None")
             ELSE Return(ForNode(Top.ident_token.value, Top.range_expr, ret))

ParsePrint ==
    /\ Parsing("parse_print")
    /\ \/ /\ Top.pc = "start"
          /\ NextCall(FExpression, [Top EXCEPT !.pc = "ret"])
       \/ /\ Top.pc = "ret"
          /\ Return(PrintNode(ret))

ParseExpression ==
    /\ Parsing("parse_expression")
    /\ \/ /\ Top.pc = "start"
          /\ IF current_token = NoneTok
             THEN PRaise("TypeError", NotSubscriptable, "None")
             ELSE IF current_token.kind = "LPAREN"
             THEN NextCall(FExpression, [Top EXCEPT !.pc = "rparen"])
             ELSE IF current_token.kind \in {"NUMBER", "STRING", "IDENT"}
             THEN GotoNext([Top EXCEPT !.value = current_token.value,
                                       !.token_type = current_token.kind,
                                       !.pc = "op"])
             ELSE PRaise("RuntimeError", "Unexpected token in expression",
                         current_token.kind)
       \/ /\ Top.pc = "rparen"
          /\ IF current_token = NoneTok
             THEN PRaise("TypeError", NotSubscriptable, "None")
             ELSE IF current_token.kind # "RPAREN"
             THEN PRaise("RuntimeError", "Expected \")\"", "")
             ELSE NextReturn(ret)
       \/ /\ Top.pc = "op"
          /\ IF current_token # NoneTok /\ current_token.kind = "OP"
             THEN NextCall(FExpression, [Top EXCEPT !.op = current_token.value,
                                                    !.pc = "right"])
             ELSE Return(AtomNode(Top.token_type, Top.value))
       \/ /\ Top.pc = "right"
          /\ Return(OperationNode(Top.op, AtomNode(Top.token_type, Top.value), ret))

ParseBlock ==
    /\ Parsing("parse_block")
    /\ \/ /\ Top.pc = "loop"
          /\ IF current_token # NoneTok /\ current_token.value # StrV(<<"}">>)
             THEN Call(FStatement, [Top EXCEPT !.pc = "append"])
             ELSE IF Is(current_token, <<"}">>)
             THEN NextReturn(Top.statements)
             ELSE Return(Top.statements)
       \/ /\ Top.pc = "append"
          /\ Goto([Top EXCEPT !.statements = Append(@, ret), !.pc = "loop"])

(***************************************************************************)
(* Python's operators on the values the interpreter can hold               *)
(***************************************************************************)
Abs(k) == IF k < 0 THEN -k ELSE k

RECURSIVE Gcd(_, _)
Gcd(a, b) == IF b = 0 THEN a ELSE Gcd(b, a % b)

\* The float num/den (den # 0), as a reduced fraction with a positive
\* denominator: the exact quotient, without the rounding of a 64-bit float.
FloatV(num, den) ==
    LET g == Gcd(Abs(num), Abs(den))
        sgn == IF den < 0 THEN -1 ELSE 1 IN
    [t |-> "float", n |-> sgn * (num \div g), d |-> Abs(den) \div g,
     s |-> <<>>, q |-> <<>>]

IsNum(v) == v.t \in {"int", "bool", "float"}
IsIntegral(v) == v.t \in {"int", "bool"}
IsSeq(v) == v.t \in {"str", "tuple"}

\* The result of an arithmetic operator on numbers: an int unless an operand
\* is a float.
NumV(a, b, num, den) ==
    IF IsIntegral(a) /\ IsIntegral(b) THEN IntV(num) ELSE FloatV(num, den)

RECURSIVE Repeat(_, _)
Repeat(xs, k) == IF k <= 0 THEN <<>> ELSE xs \o Repeat(xs, k - 1)

\* s * k and k * s for a str or tuple s and an int or bool k
RepeatV(v, k) == IF v.t = "str" THEN StrV(Repeat(v.s, k)) ELSE TupV(Repeat(v.q, k))

\* Lexicographic order of two strings by code point.
RECURSIVE StrLt(_, _)
StrLt(a, b) ==
    IF b = <<>> THEN FALSE
    ELSE IF a = <<>> THEN TRUE
    ELSE IF a[1] = b[1] THEN StrLt(Tail(a), Tail(b))
    ELSE Ord(a[1]) < Ord(b[1])

\* Lexicographic order of two tuples of strings.
RECURSIVE TupLt(_, _)
TupLt(a, b) ==
    IF b = <<>> THEN FALSE
    ELSE IF a = <<>> THEN TRUE
    ELSE IF a[1] = b[1] THEN TupLt(Tail(a), Tail(b))
    ELSE StrLt(a[1], b[1])

\* left == right
PyEq(a, b) ==
    IF IsNum(a) /\ IsNum(b) THEN a.n * b.d = b.n * a.d
    ELSE IF a.t = "str" /\ b.t = "str" THEN a.s = b.s
    ELSE IF a.t = "tuple" /\ b.t = "tuple" THEN a.q = b.q
    ELSE FALSE

\* Whether left < right is defined for the two types.
Ordered(a, b) ==
    \/ IsNum(a) /\ IsNum(b)
    \/ a.t = "str" /\ b.t = "str"
    \/ a.t = "tuple" /\ b.t = "tuple"

\* left < right, for Ordered operands
PyLt(a, b) ==
    IF IsNum(a) THEN a.n * b.d < b.n * a.d
    ELSE IF a.t = "str" THEN StrLt(a.s, b.s)
    ELSE TupLt(a.q, b.q)

Unsupported == "unsupported operand type(s)"

\* Interpreter.apply_operation; op is the operator token's text.
apply_operation(op, left, right) ==
    IF op = StrV(<<"+">>) THEN
        IF IsNum(left) /\ IsNum(right)
        THEN NumV(left, right, left.n * right.d + right.n * left.d, left.d * right.d)
        ELSE IF left.t = "str" /\ right.t = "str" THEN StrV(left.s \o right.s)
        ELSE IF left.t = "tuple" /\ right.t = "tuple" THEN TupV(left.q \o right.q)
        ELSE Raise("TypeError", Unsupported)
    ELSE IF op = StrV(<<"-">>) THEN
        IF IsNum(left) /\ IsNum(right)
        THEN NumV(left, right, left.n * right.d - right.n * left.d, left.d * right.d)
        ELSE Raise("TypeError", Unsupported)
    ELSE IF op = StrV(<<"*">>) THEN
        IF IsNum(left) /\ IsNum(right)
        THEN NumV(left, right, left.n * right.n, left.d * right.d)
        ELSE IF IsSeq(left) /\ IsIntegral(right) THEN RepeatV(left, right.n)
        ELSE IF IsIntegral(left) /\ IsSeq(right) THEN RepeatV(right, left.n)
        ELSE Raise("TypeError", Unsupported)
    ELSE IF op = StrV(<<"/">>) THEN
        IF IsNum(left) /\ IsNum(right)
        THEN IF right.n = 0 THEN Raise("ZeroDivisionError", "division by zero")
             ELSE FloatV(left.n * right.d, left.d * right.n)
        ELSE Raise("TypeError", Unsupported)
    ELSE IF op = StrV(<<"=", "=">>) THEN BoolV(PyEq(left, right))
    ELSE IF op = StrV(<<"<">>) THEN
        IF Ordered(left, right) THEN BoolV(PyLt(left, right))
        ELSE Raise("TypeError", Unsupported)
    ELSE IF op = StrV(<<">">>) THEN
        IF Ordered(left, right) THEN BoolV(PyLt(right, left))
        ELSE Raise("TypeError", Unsupported)
    ELSE IF op = StrV(<<"<", "=">>) THEN
        IF Ordered(left, right) THEN BoolV(PyLt(left, right) \/ PyEq(left, right))
        ELSE Raise("TypeError", Unsupported)
    ELSE IF op = StrV(<<">", "=">>) THEN
        IF Ordered(left, right) THEN BoolV(PyLt(right, left) \/ PyEq(left, right))
        ELSE Raise("TypeError", Unsupported)
    ELSE IF op = StrV(<<"!", "=">>) THEN BoolV(~PyEq(left, right))
    ELSE Raise("RuntimeError", "Unknown operator")

\* The characters of a node's tag ('IDENT' is the only tag that reaches a
\* value).
TagText(tag) == IF tag = "IDENT" THEN <<"I", "D", "E", "N", "T">> ELSE <<>>

\* Interpreter.evaluate.  Every expression the parser builds is a tuple, so
\* the branches for a bare int or str and the lookup in self.variables
\* (lines 185-188) are never taken: a node that is neither an OPERATION nor a
\* NUMBER nor a STRING leaves the inner if and is returned as it is.
RECURSIVE evaluate(_, _)
evaluate(expr, env) ==
    IF expr[1] = "OPERATION" THEN
        LET left_val == evaluate(expr[3], env) IN
        IF IsRaise(left_val) THEN left_val
        ELSE LET right_val == evaluate(expr[4], env) IN
             IF IsRaise(right_val) THEN right_val
             ELSE apply_operation(expr[2], left_val, right_val)
    ELSE IF expr[1] \in {"NUMBER", "STRING"} THEN expr[2]
    ELSE TupV(<<TagText(expr[1]), expr[2].s>>)

\* The truth value of a value in `if`.
Truthy(v) ==
    IF IsNum(v) THEN v.n # 0
    ELSE IF v.t = "str" THEN v.s # <<>>
    ELSE v.q # <<>>

\* The character with code point 48 + k.
DigitChar(k) == AsciiLow[17 + k]

\* str(k) of an int
RECURSIVE IntStr(_)
IntStr(k) ==
    IF k < 0 THEN <<"-">> \o IntStr(-k)
    ELSE IF k < 10 THEN <<DigitChar(k)>>
    ELSE IntStr(k \div 10) \o <<DigitChar(k % 10)>>

\* The elements of a tuple of strings in repr(): each in single quotes,
\* separated by ", ".
RECURSIVE ReprItems(_)
ReprItems(es) ==
    IF es = <<>> THEN <<>>
    ELSE <<"'">> \o es[1] \o <<"'">>
         \o (IF Len(es) = 1 THEN <<>> ELSE <<",", " ">> \o ReprItems(Tail(es)))

\* A line of output: its text, or for a float the fraction it stands for
\* (the digits of a float are not computed).
TextLine(cs) == [text |-> cs, num |-> 0, den |-> 0]
FloatLine(num, den) == [text |-> <<>>, num |-> num, den |-> den]

\* The line print(v) writes: str(v).
Line(v) ==
    IF v.t = "int" THEN TextLine(IntStr(v.n))
    ELSE IF v.t = "bool"
    THEN TextLine(IF v.n = 1 THEN <<"T", "r", "u", "e">> ELSE <<"F", "a", "l", "s", "e">>)
    ELSE IF v.t = "str" THEN TextLine(v.s)
    ELSE IF v.t = "tuple" THEN TextLine(<<"(">> \o ReprItems(v.q) \o <<")">>)
    ELSE FloatLine(v.n, v.d)

(***************************************************************************)
(* Interpreter                                                             *)
(***************************************************************************)
\* self.variables[name] = value
Bind(env, name, value) ==
    [k \in DOMAIN env \cup {name} |-> IF k = name THEN value ELSE env[k]]

\* The for statement of line 169 between two iterations: the loop variable,
\* the next value of range(N), N, and the body.
Loop(ident, i, N, block) == <<"LOOP", ident, i, N, block>>

\* An exception that is swallowed: the statement is skipped and the run goes
\* on.
IRaiseSkip(v) ==
    /\ variables' = variables
    /\ todo' = Tail(todo)
    /\ output' = output
    /\ UNCHANGED <<source, phase, err, pos, tokens, current_token, pstack, ret,
                   ast, orig, consumed>>

\* An exception raised in the interpreter: nothing catches it.
IRaise(v) ==
    /\ phase' = "error"
    /\ err' = [stage |-> "interpreter", exc |-> v.exc, msg |-> v.msg, kind |-> ""]
    /\ UNCHANGED <<source, pos, tokens, current_token, pstack, ret, ast,
                   variables, todo, output, orig, consumed>>

\* One step of the interpreter.
IStep(env, rest, out) ==
    /\ variables' = env
    /\ todo' = rest
    /\ output' = out
    /\ UNCHANGED <<source, phase, err, pos, tokens, current_token, pstack, ret,
                   ast, orig, consumed>>

Executing(tag) == phase = "run" /\ todo # <<>> /\ Head(todo)[1] = tag

\* interpreter = Interpreter(); interpreter.interpret(ast)
InterpreterInit ==
    /\ phase = "parsed"
    /\ phase' = "run"
    /\ variables' = <<>>
    /\ todo' = ast
    /\ UNCHANGED <<source, err, pos, tokens, current_token, pstack, ret, ast,
                   output, orig, consumed>>

ExecuteDeclare ==
    /\ Executing("DECLARE")
    /\ LET node == Head(todo)
           name == node[3]
           value == node[4] IN
       IF ~IsNone(value)
       THEN LET v == evaluate(value, variables) IN
            IF IsRaise(v) THEN IRaise(v)
            ELSE IStep(Bind(variables, name, v), Tail(todo), output)
       ELSE IStep(variables, Tail(todo), output)

ExecuteIf ==
    /\ Executing("IF")
    /\ LET node == Head(todo)
           if_block == node[3]
           else_block == node[4]
           c == evaluate(node[2], variables) IN
       IF IsRaise(c) THEN IRaise(c)
       ELSE IF Truthy(c) THEN IStep(variables, if_block \o Tail(todo), output)
       ELSE IF ~IsNone(else_block) /\ else_block[2] # <<>>
       THEN IStep(variables, else_block[2] \o Tail(todo), output)
       ELSE IStep(variables, Tail(todo), output)

ExecuteFor ==
    /\ Executing("FOR")
    /\ LET node == Head(todo)
           N == evaluate(node[3], variables) IN
       IF IsRaise(N) THEN IRaise(N)
       ELSE IF ~IsIntegral(N)
       THEN IRaise(Raise("TypeError", "object cannot be interpreted as an integer"))
       ELSE IStep(variables, <<Loop(node[2], 0, N.n, node[4])>> \o Tail(todo), output)

\* The loop with the loop variable bound one past the value of range(N).
ForIterateOffByOne ==
    /\ Executing("LOOP")
    /\ LET loop == Head(todo)
           ident == loop[2]
           i == loop[3]
           N == loop[4]
           block == loop[5] IN
       IF i < N
       THEN IStep(Bind(variables, ident, IntV(i + 1)),
                  block \o <<Loop(ident, i + 1, N, block)>> \o Tail(todo), output)
       ELSE IStep(variables, Tail(todo), output)

ForIterate ==
    /\ Executing("LOOP")
    /\ LET loop == Head(todo)
           ident == loop[2]
           i == loop[3]
           N == loop[4]
           block == loop[5] IN
       IF i < N
       THEN IStep(Bind(variables, ident, IntV(i)),
                  block \o <<Loop(ident, i + 1, N, block)>> \o Tail(todo), output)
       ELSE IStep(variables, Tail(todo), output)

ExecutePrint ==
    /\ Executing("PRINT")
    /\ LET v == evaluate(Head(todo)[2], variables) IN
       IF IsRaise(v) THEN IRaise(v)
       ELSE IStep(variables, Tail(todo), Append(output, Line(v)))

\* interpret(ast) returns: the program ends.
Finish ==
    /\ phase = "run"
    /\ todo = <<>>
    /\ phase' = "done"
    /\ UNCHANGED <<source, err, pos, tokens, current_token, pstack, ret, ast,
                   variables, todo, output, orig, consumed>>

(***************************************************************************)
(* Lexer.tokenize and the main sequence                                    *)
(***************************************************************************)
\* tokenize skipping a character no pattern matches, as it skips white
\* space.
TokenizeLenient ==
    /\ phase = "lex"
    /\ pos <= Len(source)
    /\ LET mo == Match(source, pos)
           value == SubSeq(source, pos, mo.end - 1) IN
       /\ pos' = mo.end
       /\ tokens' = IF mo.kind \in {"SKIP", "MISMATCH"} THEN tokens
                    ELSE Append(tokens, MakeToken(mo.kind, value))
       /\ UNCHANGED <<phase, err>>
    /\ UNCHANGED <<source, current_token, pstack, ret, ast, variables, todo,
                   output, orig, consumed>>

\* One match of re.finditer and the body of the loop for it.
Tokenize ==
    /\ phase = "lex"
    /\ pos <= Len(source)
    /\ LET mo == Match(source, pos)
           value == SubSeq(source, pos, mo.end - 1) IN
       IF mo.kind = "MISMATCH"
       THEN /\ phase' = "error"
            /\ err' = [stage |-> "lexer", exc |-> "RuntimeError",
                       msg |-> "Unexpected character", kind |-> value[1]]
            /\ UNCHANGED <<pos, tokens>>
       ELSE /\ pos' = mo.end
            /\ tokens' = IF mo.kind = "SKIP" THEN tokens
                         ELSE Append(tokens, MakeToken(mo.kind, value))
            /\ UNCHANGED <<phase, err>>
    /\ UNCHANGED <<source, current_token, pstack, ret, ast, variables, todo,
                   output, orig, consumed>>

\* tokenize returns self.tokens.
TokenizeReturn ==
    /\ phase = "lex"
    /\ pos > Len(source)
    /\ phase' = "lexed"
    /\ orig' = tokens
    /\ UNCHANGED <<source, err, pos, tokens, current_token, pstack, ret, ast,
                   variables, todo, output, consumed>>

(***************************************************************************)
(* Source texts                                                            *)
(***************************************************************************)
W_int == <<"i", "n", "t">>
W_string == <<"s", "t", "r", "i", "n", "g">>
W_if == <<"i", "f">>
W_else == <<"e", "l", "s", "e">>
W_for == <<"f", "o", "r">>
W_print == <<"p", "r", "i", "n", "t">>
W_range == <<"r", "a", "n", "g", "e">>
W_in == <<"i", "n">>
W_x == <<"x">>
W_y == <<"y">>
W_i == <<"i">>
W_0 == <<"0">>
W_1 == <<"1">>
W_2 == <<"2">>
W_3 == <<"3">>
W_5 == <<"5">>
W_6 == <<"6">>
W_7 == <<"7">>
W_8 == <<"8">>
W_9 == <<"9">>
W_a == <<"\"", "a", "\"">>
W_eq == <<"=">>
W_minus == <<"-">>
W_div == <<"/">>
W_badop == <<"+", "-">>
W_colon == <<":">>
W_lparen == <<"(">>
W_rparen == <<")">>
W_lbrace == <<"{">>
W_rbrace == <<"}">>
W_at == <<"@">>

\* The words of ws, separated by single spaces.
RECURSIVE Join(_)
Join(ws) ==
    IF ws = <<>> THEN <<>>
    ELSE IF Len(ws) = 1 THEN ws[1]
    ELSE ws[1] \o <<" ">> \o Join(Tail(ws))

\* The sequences of at most k elements of S.
RECURSIVE SeqsUpTo(_, _)
SeqsUpTo(S, k) ==
    IF k = 0 THEN {<<>>}
    ELSE LET shorter == SeqsUpTo(S, k - 1) IN
         shorter \cup {<<x>> \o t : x \in S, t \in {u \in shorter : Len(u) = k - 1}}

\* The concatenation of a sequence of sequences.
RECURSIVE Flatten(_)
Flatten(ss) == IF ss = <<>> THEN <<>> ELSE ss[1] \o Flatten(Tail(ss))

MaxWords == 3
MaxChain == 3
MaxN == 2
MaxBody == 2

\* One word for each kind of token, and a character no pattern matches.
Vocabulary == {W_int, W_string, W_if, W_else, W_for, W_print, W_range, W_in,
               W_x, W_1, W_a, W_eq, W_minus, W_colon, W_lparen, W_rparen,
               W_lbrace, W_rbrace, W_at}

FollowWords == {W_x, W_1, W_a, W_in, W_eq, W_lparen, W_range, W_at}

\* Every text of at most MaxWords words: any word first, then words that
\* can follow a statement's keyword.
WordPrograms ==
    {<<>>} \cup {<<w>> \o t : w \in Vocabulary, t \in SeqsUpTo(FollowWords, MaxWords - 1)}

\* a1 op1 a2 ... an, n <= k
ChainAtoms == {W_1, W_2, W_3, W_y}
ChainOps == {W_minus, W_div}

RECURSIVE Chains(_)
Chains(k) ==
    IF k = 1 THEN {<<a>> : a \in ChainAtoms}
    ELSE LET shorter == Chains(k - 1) IN
         shorter \cup {<<a, o>> \o c : a \in ChainAtoms, o \in ChainOps,
                                       c \in {u \in shorter : Len(u) = 2 * k - 3}}

\* int x = a1 op1 a2 ... an
ChainPrograms == {<<W_int, W_x, W_eq>> \o c : c \in Chains(MaxChain)}

\* Statements without a block.
SimpleStmts == {<<W_int, W_x, W_eq, W_5>>, <<W_int, W_i, W_eq, W_9>>,
                <<W_print, W_x>>, <<W_print, W_5>>,
                <<W_print, W_a, W_minus, W_1>>, <<W_print, W_1, W_div, W_0>>,
                <<W_print, W_lparen, W_1, W_rparen>>}

\* Programs of at most two of them.
PairPrograms == {Flatten(p) : p \in SeqsUpTo(SimpleStmts, 2)}

\* The statements of a loop body.
BodyStmts == {<<W_print, W_i>>, <<W_int, W_i, W_eq, W_7>>, <<W_int, W_i>>,
              <<W_if, W_1, W_colon, W_print, W_2, W_badop, W_2, W_rbrace>>,
              <<W_for, W_i, W_in, W_2, W_colon, W_rbrace>>}

\* The bound of a loop: 0 - 1 (that is, -1), 0, 1, ..., MaxN.
Bounds == {<<W_0, W_minus, W_1>>} \cup {<<IntStr(k)>> : k \in 0..MaxN}

\* for i in N : body }
Loops == {<<W_for, W_i, W_in>> \o b \o <<W_colon>> \o Flatten(body) \o <<W_rbrace>> :
            b \in Bounds, body \in SeqsUpTo(BodyStmts, MaxBody)}

\* A loop, after nothing or a declaration, before nothing or a print.
LoopPrograms ==
    {pre \o l \o post : pre \in {<<>>, <<W_int, W_i, W_eq, W_9>>},
                        l \in Loops,
                        post \in {<<>>, <<W_print, W_6>>}}

\* for i in N { print i }
BracePrograms ==
    {<<W_for, W_i, W_in, IntStr(k), W_lbrace, W_print, W_i, W_rbrace>> : k \in 0..MaxN}

Sources ==
    {Join(p) : p \in WordPrograms \cup ChainPrograms \cup PairPrograms
                     \cup LoopPrograms \cup BracePrograms}

(***************************************************************************)
(* The program                                                             *)
(***************************************************************************)
\* lexer = Lexer(source_code)
Init ==
    /\ source \in Sources
    /\ phase = "lex"
    /\ err = NoErr
    /\ pos = 1
    /\ tokens = <<>>
    /\ current_token = NoneTok
    /\ pstack = <<>>
    /\ ret = None
    /\ ast = <<>>
    /\ variables = <<>>
    /\ todo = <<>>
    /\ output = <<>>
    /\ orig = <<>>
    /\ consumed = <<>>

Next ==
    \/ Tokenize
    \/ TokenizeReturn
    \/ ParserInit
    \/ ParseProgram
    \/ ParseStatement
    \/ ParseDeclaration
    \/ ParseIf
    \/ ParseFor
    \/ ParsePrint
    \/ ParseExpression
    \/ ParseBlock
    \/ InterpreterInit
    \/ ExecuteDeclare
    \/ ExecuteIf
    \/ ExecuteFor
    \/ ForIterate
    \/ ExecutePrint
    \/ Finish

Spec == Init /\ [][Next]_vars

(***************************************************************************)
(* Properties                                                              *)
(***************************************************************************)
Terminal == phase \in {"done", "error"}

\* The parser returned an AST.
ParsedOK ==
    \/ phase \in {"parsed", "run", "done"}
    \/ phase = "error" /\ err.stage = "interpreter"

\* The expression a statement evaluates, None if it evaluates none.
Evaluated(node) ==
    IF node[1] = "DECLARE" THEN node[4]
    ELSE IF node[1] = "IF" THEN node[2]
    ELSE IF node[1] = "FOR" THEN node[3]
    ELSE IF node[1] = "PRINT" THEN node[2]
    ELSE None

\* The statement at the head of todo raises when it is executed.
HeadRaises ==
    /\ phase = "run"
    /\ todo # <<>>
    /\ ~IsNone(Evaluated(Head(todo)))
    /\ LET v == evaluate(Evaluated(Head(todo)), variables) IN
       IsRaise(v) \/ (Head(todo)[1] = "FOR" /\ ~IsIntegral(v))

\* C1: a bare identifier evaluates to the value bound to its name when the
\* name is bound, and to its own name as a string when it is not: so does
\* the expression of every print of a bare identifier about to execute.
C1_IdentifierLookup ==
    (Executing("PRINT") /\ Head(todo)[2][1] = "IDENT") =>
        LET name == Head(todo)[2][2] IN
        evaluate(Head(todo)[2], variables) =
            IF name \in DOMAIN variables THEN variables[name] ELSE name

\* The lines 0, 1, ..., k - 1.
Counting(k) == [j \in 1..k |-> TextLine(IntStr(j - 1))]

\* C2: the program `for i in N { print i }` is accepted and runs to its end,
\* printing 0, 1, ..., N - 1 one per line, with i bound to N - 1 after it.
C2_BraceLoop ==
    \A k \in 0..MaxN :
        (source = Join(<<W_for, W_i, W_in, IntStr(k), W_lbrace, W_print, W_i, W_rbrace>>)
         /\ Terminal) =>
            /\ phase = "done"
            /\ output = Counting(k)
            /\ k >= 1 => /\ StrV(W_i) \in DOMAIN variables
                         /\ variables[StrV(W_i)] = IntV(k - 1)

\* a1 op1 a2 ... an as tokens: atoms at the odd places, operators between.
IsChain(ts) ==
    /\ Len(ts) % 2 = 1
    /\ \A k \in 1..Len(ts) :
         IF k % 2 = 1 THEN ts[k].kind \in {"NUMBER", "STRING", "IDENT"}
         ELSE ts[k].kind = "OP"

\* Operation(op1, a1, Operation(op2, a2, ...))
RECURSIVE RightNested(_)
RightNested(ts) ==
    IF Len(ts) = 1 THEN <<ts[1].kind, ts[1].value>>
    ELSE <<"OPERATION", ts[2].value, <<ts[1].kind, ts[1].value>>,
           RightNested(SubSeq(ts, 3, Len(ts)))>>

\* A chain of numbers joined by "-".
IsSubtraction(ts) ==
    \A k \in 1..Len(ts) :
        IF k % 2 = 1 THEN ts[k].kind = "NUMBER" ELSE ts[k].value = StrV(W_minus)

\* a1 - (a2 - (a3 - ...))
RECURSIVE RightSub(_)
RightSub(ts) ==
    IF Len(ts) = 1 THEN ts[1].value.n
    ELSE ts[1].value.n - RightSub(SubSeq(ts, 3, Len(ts)))

\* The tokens of the program are `print` and then a chain.
IsChainPrint ==
    /\ Len(orig) >= 2
    /\ orig[1].kind = "PRINT"
    /\ IsChain(SubSeq(orig, 2, Len(orig)))

\* The tokens of the program are `int <name> =` and then a chain.
IsChainDeclaration ==
    /\ Len(orig) >= 4
    /\ orig[1].kind = "INT"
    /\ orig[2].kind = "IDENT"
    /\ Is(orig[3], W_eq)
    /\ IsChain(SubSeq(orig, 4, Len(orig)))

\* C3: a chain a1 op1 a2 op2 ... an without parentheses is parsed as
\* Operation(op1, a1, Operation(op2, a2, ...)), so that a chain of
\* subtractions evaluates from the right: int x = 1 - 2 - 3 binds x to 2.
C3_RightAssociative ==
    /\ (ParsedOK /\ IsChainDeclaration) =>
          ast = <<DeclareNode(orig[1].value, orig[2].value,
                              RightNested(SubSeq(orig, 4, Len(orig))))>>
    /\ (ParsedOK /\ IsChainPrint) =>
          ast = <<PrintNode(RightNested(SubSeq(orig, 2, Len(orig))))>>
    /\ (phase = "done" /\ IsChainDeclaration /\ IsSubtraction(SubSeq(orig, 4, Len(orig)))) =>
          variables[orig[2].value] = IntV(RightSub(SubSeq(orig, 4, Len(orig))))
    /\ (phase = "done"
        /\ source = Join(<<W_int, W_x, W_eq, W_1, W_minus, W_2, W_minus, W_3>>)) =>
          variables[StrV(W_x)] = IntV(2)

C3_Witness ==
    /\ phase = "done"
    /\ source = Join(<<W_int, W_x, W_eq, W_1, W_minus, W_2, W_minus, W_3>>)
    /\ variables[StrV(W_x)] = IntV(2)

\* A statement in the block, at any depth, binds the name: a declaration of
\* it with an initializer, or a for over it.
RECURSIVE Binds(_, _)
Binds(block, name) ==
    \E k \in 1..Len(block) :
        LET node == block[k] IN
        \/ node[1] = "DECLARE" /\ node[3] = name /\ ~IsNone(node[4])
        \/ node[1] = "FOR" /\ (node[2] = name \/ Binds(node[4], name))
        \/ node[1] = "IF" /\ (Binds(node[3], name)
                              \/ (~IsNone(node[4]) /\ Binds(node[4][2], name)))

\* The block holds a declaration of the name without an initializer.
Declares(block, name) ==
    \E k \in 1..Len(block) :
        block[k][1] = "DECLARE" /\ block[k][3] = name /\ IsNone(block[k][4])

\* The for statement at the head of todo has run all its iterations.
LoopEnds == Executing("LOOP") /\ Head(todo)[3] >= Head(todo)[4]

\* Entering a loop binds nothing; a loop that ends is left with nothing
\* bound, printed or run (for N <= 0 this is the whole loop: the body never
\* runs and the loop variable keeps its binding or its absence).
LoopFrame ==
    /\ Executing("FOR") /\ ~HeadRaises =>
          /\ variables' = variables
          /\ output' = output
          /\ todo' = <<Loop(Head(todo)[2], 0, evaluate(Head(todo)[3], variables).n,
                            Head(todo)[4])>> \o Tail(todo)
    /\ LoopEnds =>
          /\ variables' = variables
          /\ output' = output
          /\ todo' = Tail(todo)

\* C4 for every body: after a loop with N >= 1 the loop variable holds
\* N - 1 whatever the body is, and a loop with N <= 0 changes nothing.
C4_Original ==
    [][/\ LoopFrame
       /\ (LoopEnds /\ Head(todo)[4] >= 1) =>
             /\ Head(todo)[2] \in DOMAIN variables'
             /\ variables'[Head(todo)[2]] = IntV(Head(todo)[4] - 1)]_vars

\* C4: after a loop with bound N >= 1 whose body holds no statement that
\* binds the loop variable's name (a declaration of it with an initializer,
\* a for over it) the loop variable holds N - 1; a loop with N <= 0 never
\* runs its body and leaves the loop variable as it was.
C4_LoopVariable ==
    [][/\ LoopFrame
       /\ (LoopEnds /\ Head(todo)[4] >= 1 /\ ~Binds(Head(todo)[5], Head(todo)[2])) =>
             /\ Head(todo)[2] \in DOMAIN variables'
             /\ variables'[Head(todo)[2]] = IntV(Head(todo)[4] - 1)]_vars

C4_Witness ==
    /\ LoopEnds
    /\ Head(todo)[4] >= 2
    /\ ~Binds(Head(todo)[5], Head(todo)[2])
    /\ Declares(Head(todo)[5], Head(todo)[2])
    /\ variables[Head(todo)[2]] = IntV(Head(todo)[4] - 1)

\* C5: a program whose first statement begins with a string literal is
\* rejected, and in the tokens of `string "a"` the keyword and the string
\* literal have different kinds.
C5_StatementDispatch ==
    /\ (source # <<>> /\ source[1] = Quote) => ~ParsedOK
    /\ (source = Join(<<W_string, W_a>>) /\ Len(tokens) = 2) =>
          tokens[1].kind # tokens[2].kind

\* C6: the parser fails only with its own error, never with a host-level
\* one, and accepts no program in which the token after `int` or `for` is
\* not an identifier.
C6_ParseErrorOnly ==
    /\ (phase = "error" /\ err.stage = "parser") => err.exc = "RuntimeError"
    /\ (ParsedOK /\ Len(orig) >= 2 /\ orig[1].kind \in {"INT", "FOR"}) =>
          orig[2].kind = "IDENT"

\* The lexer meets a character that no pattern matches.
RECURSIVE LexFails(_, _)
LexFails(src, p) ==
    IF p > Len(src) THEN FALSE
    ELSE Match(src, p).kind = "MISMATCH" \/ LexFails(src, Match(src, p).end)

\* C7: nothing is executed, printed or bound before the whole source is
\* tokenized and parsed; a source that fails in the lexer or in the parser
\* ends with no output and no binding, also when a print stands before the
\* offending place.
C7_StrictPipeline ==
    /\ (phase \in {"run", "done"} \/ (phase = "error" /\ err.stage = "interpreter")
        \/ output # <<>> \/ DOMAIN variables # {} \/ todo # <<>>) =>
          /\ pos = Len(source) + 1
          /\ ~LexFails(source, 1)
          /\ pstack = <<>>
          /\ tokens = <<>>
          /\ current_token = NoneTok
    /\ (phase = "error" /\ err.stage \in {"lexer", "parser"}) =>
          output = <<>> /\ DOMAIN variables = {} /\ todo = <<>>
    /\ LexFails(source, 1) =>
          /\ phase \in {"lex", "error"}
          /\ phase = "error" => err.stage = "lexer"
          /\ output = <<>> /\ DOMAIN variables = {}

C7_Witness ==
    /\ phase = "error"
    /\ err.stage = "lexer"
    /\ \E k \in 1..Len(tokens) : tokens[k].kind = "PRINT"
    /\ output = <<>>

\* C8: a program that holds the reserved word `range` fails to parse.
C8_RangeReserved ==
    (\E k \in 1..Len(orig) : orig[k].kind = "RANGE") => ~ParsedOK

\* C9: a statement that raises ends the run at once, with the output and
\* the bindings of the statements before it and nothing executed after it;
\* the output grows only by the line of a print that executes, in order.
C9_FatalRuntimeError ==
    [][/\ HeadRaises =>
             /\ phase' = "error"
             /\ err'.stage = "interpreter"
             /\ output' = output
             /\ variables' = variables
             /\ todo' = todo
       /\ phase = "error" => FALSE
       /\ output' # output =>
             /\ Executing("PRINT")
             /\ output' = Append(output, Line(evaluate(Head(todo)[2], variables)))]_vars

C9_Witness ==
    /\ phase = "error"
    /\ err.stage = "interpreter"
    /\ output # <<>>
    /\ \E k \in 2..Len(todo) : todo[k][1] = "LOOP" /\ todo[k][3] < todo[k][4]
    /\ todo[Len(todo)][1] = "PRINT"

\* The current token, as a list.
Current == IF current_token = NoneTok THEN <<>> ELSE <<current_token>>

\* C10: while the parser runs, the tokens consumed, the current token and
\* the tokens left are the token sequence in its order; when parse returns
\* every token is consumed.
C10_TokensInOrder ==
    /\ (phase = "parse" \/ (phase = "error" /\ err.stage = "parser")) =>
          consumed \o Current \o tokens = orig
    /\ ParsedOK => current_token = NoneTok /\ tokens = <<>> /\ consumed = orig

C10_Witness ==
    /\ phase = "run"
    /\ Len(orig) >= 8
    /\ consumed = orig
    /\ tokens = <<>>

====
